---- MODULE Spec2Model ----
(***************************************************************************)
(* Model of src/app.py: the Intel DMT bridge.  A module-level startup      *)
(* authorization stores a bearer token in the global `token`; three tools  *)
(* (get_devices, get_power_state, do_power_action) call the remote API     *)
(* through two dispatchers and turn the parsed JSON into text.             *)
(*                                                                         *)
(* The remote API is a black box: every HTTP exchange ends in one of the   *)
(* outcomes of Outcomes, chosen nondeterministically.                      *)
(***************************************************************************)
EXTENDS Bags, FiniteSets, Integers, Sequences, TLC

VARIABLES phase, token, tokenWrites, authSent, inflight, last

vars == <<phase, token, tokenWrites, authSent, inflight, last>>

(***************************************************************************)
(* Bounds of the model.                                                    *)
(***************************************************************************)
\* longest device array the remote API returns
MaxDevices == 2
\* largest power state code the remote API returns (codes run from -2)
MaxCode == 14
\* tool invocations the host may have in flight at once
MaxInFlight == 2

(***************************************************************************)
(* JSON values as Python sees them after response.json().                  *)
(* A scalar is [t, n, s]; t = "missing" marks a key a dict does not hold,  *)
(* t = "unset" the global before its first assignment.                     *)
(***************************************************************************)
JInt(n) == [t |-> "int", n |-> n, s |-> ""]
JStr(s) == [t |-> "str", n |-> 0, s |-> s]
JNone == [t |-> "null", n |-> 0, s |-> ""]
Missing == [t |-> "missing", n |-> 0, s |-> ""]
Unset == [t |-> "unset", n |-> 0, s |-> ""]

Keys == {"connectionStatus", "hostname", "guid", "friendlyName",
         "powerstate", "ReturnValue", "token", "error"}

DeviceKeys == <<"connectionStatus", "hostname", "guid", "friendlyName">>

EmptyFields == [k \in Keys |-> Missing]

\* an element of a JSON array
ObjItem(f) == [kind |-> "object", n |-> 0, s |-> "", fields |-> f]
IntItem(n) == [kind |-> "int", n |-> n, s |-> "", fields |-> EmptyFields]

\* a parsed body (None is the body of kind "null")
NoneBody == [kind |-> "null", n |-> 0, s |-> "", items |-> <<>>, fields |-> EmptyFields]
IntBody(n) == [NoneBody EXCEPT !.kind = "int", !.n = n]
StrBody(s) == [NoneBody EXCEPT !.kind = "str", !.s = s]
ArrBody(items) == [NoneBody EXCEPT !.kind = "array", !.items = items]
ObjBody(f) == [NoneBody EXCEPT !.kind = "object", !.fields = f]

Device(cs, host, guid, name) ==
    ObjItem([EmptyFields EXCEPT !["connectionStatus"] = JInt(cs),
                                !["hostname"] = JStr(host),
                                !["guid"] = JStr(guid),
                                !["friendlyName"] = JStr(name)])

Dev1 == Device(1, "host-a", "guid-a", "Alpha")
Dev2 == Device(0, "host-b", "guid-b", "Beta")
\* a device object without its hostname
DevBad == ObjItem([Dev1.fields EXCEPT !["hostname"] = Missing])

ArrayItems == {Dev1, Dev2, DevBad}

RECURSIVE SeqsUpTo(_, _)
SeqsUpTo(S, n) ==
    IF n = 0 THEN {<<>>}
    ELSE LET shorter == SeqsUpTo(S, n - 1)
         IN  shorter \cup {Append(q, x) : q \in {r \in shorter : Len(r) = n - 1}, x \in S}

PowerCodes == (-2)..MaxCode

ScalarBodies == {NoneBody, IntBody(0), IntBody(5), StrBody(""), StrBody("ok")}

ArrayBodies == {ArrBody(q) : q \in SeqsUpTo(ArrayItems, MaxDevices)}
                 \cup {ArrBody(<<IntItem(7)>>)}

ObjectBodies ==
    {ObjBody(EmptyFields), ObjBody([EmptyFields EXCEPT !["error"] = JStr("not found")])}
      \cup {ObjBody([EmptyFields EXCEPT !["powerstate"] = JInt(c)]) : c \in PowerCodes}
      \cup {ObjBody([EmptyFields EXCEPT !["powerstate"] = v]) : v \in {JStr("2"), JNone}}
      \cup {ObjBody([EmptyFields EXCEPT !["ReturnValue"] = v]) :
              v \in {JInt(0), JInt(5), JInt(-1), JNone, JStr("0")}}

Bodies == ScalarBodies \cup ArrayBodies \cup ObjectBodies

(***************************************************************************)
(* Outcomes of one HTTP exchange.                                          *)
(***************************************************************************)
Outcome(net, status, parsed, body) ==
    [net |-> net, status |-> status, parsed |-> parsed, body |-> body]

FailureOutcomes ==
    {Outcome("error", 0, FALSE, NoneBody), Outcome("timeout", 0, FALSE, NoneBody)}
      \cup {Outcome("ok", st, TRUE, ObjBody([EmptyFields EXCEPT !["error"] = JStr("denied")])) :
              st \in {301, 401, 404, 500}}
      \cup {Outcome("ok", 200, FALSE, NoneBody)}

SuccessOutcomes ==
    {Outcome("ok", 200, TRUE, b) : b \in Bodies}
      \cup {Outcome("ok", 201, TRUE, ObjBody([EmptyFields EXCEPT !["ReturnValue"] = JInt(0)]))}

Outcomes == FailureOutcomes \cup SuccessOutcomes

AuthOutcomes ==
    FailureOutcomes
      \cup {Outcome("ok", 200, TRUE, b) :
              b \in {ObjBody([EmptyFields EXCEPT !["token"] = JStr("jwt-1")]),
                     ObjBody([EmptyFields EXCEPT !["token"] = JNone]),
                     ObjBody([EmptyFields EXCEPT !["error"] = JStr("bad login")]),
                     ArrBody(<<>>)}}

\* response.raise_for_status() passes
IsSuccessStatus(st) == st >= 200 /\ st <= 299

\* the try block raises: transport error, timeout, bad status, unparseable body
Throws(o) == o.net # "ok" \/ ~IsSuccessStatus(o.status) \/ ~o.parsed

(***************************************************************************)
(* Startup authorization (get_token) and the two dispatchers.              *)
(***************************************************************************)
\* data[k] succeeds: data is a dict holding k
HasKey(data, k) == data.kind = "object" /\ data.fields[k].t # "missing"

\* get_token: data["token"] of a 2xx parseable body, None on any exception
get_token(o) ==
    IF Throws(o) THEN JNone
    ELSE IF HasKey(o.body, "token") THEN o.body.fields["token"]
    ELSE JNone

\* decimal digits of a natural number
RECURSIVE NatStr(_)
NatStr(n) ==
    LET d == n % 10
        c == CASE d = 0 -> "0" [] d = 1 -> "1" [] d = 2 -> "2" [] d = 3 -> "3"
               [] d = 4 -> "4" [] d = 5 -> "5" [] d = 6 -> "6" [] d = 7 -> "7"
               [] d = 8 -> "8" [] OTHER -> "9"
    IN  IF n < 10 THEN c ELSE NatStr(n \div 10) \o c

\* str(v) as an f-string renders a scalar
Str(v) ==
    CASE v.t = "int" -> IF v.n < 0 THEN "-" \o NatStr(0 - v.n) ELSE NatStr(v.n)
      [] v.t = "str" -> v.s
      [] OTHER -> "None"

\* the Authorization header built from the global
AuthHeader(tok) == "Bearer " \o Str(tok)

make_dmt_get_request(o) == IF Throws(o) THEN NoneBody ELSE o.body

\* faulty variant: the POST dispatcher without response.raise_for_status()
make_dmt_post_request_unchecked(o) == IF o.net # "ok" \/ ~o.parsed THEN NoneBody ELSE o.body

make_dmt_post_request(o) == IF Throws(o) THEN NoneBody ELSE o.body

\* faulty variant: a dispatcher that drops the credential when the API answers 401
TokenClearedOn401(tok, o) == IF o.status = 401 THEN JNone ELSE tok

\* the dispatchers declare `global token` and never assign it
TokenAfterDispatch(tok, o) == tok

\* faulty variant: a dispatcher that sends the request again when it failed
ResendsOnFailure(o) == IF Throws(o) THEN 1 ELSE 0

\* requests a dispatcher issues after the first one, given how that one ended
Resends(o) == 0

(***************************************************************************)
(* The tools.  A result is text (a sequence of string pieces, in order) or *)
(* an exception that leaves the tool.                                      *)
(***************************************************************************)
Text(pieces) == [kind |-> "text", text |-> pieces, exc |-> ""]
Raise(exc) == [kind |-> "raise", text |-> <<>>, exc |-> exc]

\* Python truth value of a parsed body
Truthy(data) ==
    CASE data.kind = "null" -> FALSE
      [] data.kind = "int" -> data.n # 0
      [] data.kind = "str" -> data.s # ""
      [] data.kind = "array" -> Len(data.items) > 0
      [] OTHER -> \E k \in Keys : data.fields[k].t # "missing"

Separator == "\n---\n"

\* item[k] succeeds for the four device keys
WellFormed(item) ==
    item.kind = "object" /\ \A i \in 1..Len(DeviceKeys) : item.fields[DeviceKeys[i]].t # "missing"

\* the f-string of one device
Block(item) ==
    <<"\nConnection Status: ", Str(item.fields["connectionStatus"]),
      "\nHostname: ", Str(item.fields["hostname"]),
      "\nGUID: ", Str(item.fields["guid"]),
      "\nFriendly Name: ", Str(item.fields["friendlyName"]), "\n">>

\* sep.join(blocks)
RECURSIVE Join(_, _)
Join(sep, blocks) ==
    IF Len(blocks) = 0 THEN <<>>
    ELSE IF Len(blocks) = 1 THEN blocks[1]
    ELSE blocks[1] \o <<sep>> \o Join(sep, Tail(blocks))

\* faulty variant: the loop puts each new block in front of the earlier ones
RECURSIVE FormatDevicesPrepend(_, _)
FormatDevicesPrepend(items, devices) ==
    IF Len(items) = 0 THEN Text(Join(Separator, devices))
    ELSE IF Head(items).kind # "object" THEN Raise("TypeError")
    ELSE IF ~WellFormed(Head(items)) THEN Raise("KeyError")
    ELSE FormatDevicesPrepend(Tail(items), <<Block(Head(items))>> \o devices)

\* the for loop of get_devices: the blocks so far, or the first failing subscript
RECURSIVE FormatDevices(_, _)
FormatDevices(items, devices) ==
    IF Len(items) = 0 THEN Text(Join(Separator, devices))
    ELSE IF Head(items).kind # "object" THEN Raise("TypeError")
    ELSE IF ~WellFormed(Head(items)) THEN Raise("KeyError")
    ELSE FormatDevices(Tail(items), Append(devices, Block(Head(items))))

get_devices(data) ==
    IF ~Truthy(data) THEN Text(<<"Unable to fetch devices.">>)
    ELSE IF data.kind = "array" /\ Len(data.items) < 1 THEN Text(<<"No device.">>)
    ELSE IF data.kind # "array" THEN Raise("TypeError")
    ELSE FormatDevices(data.items, <<>>)

\* faulty variant: the match statement without its case 7
PowerLabelWithoutHibernate(v) ==
    IF v.t # "int" THEN "Unknown"
    ELSE CASE v.n = 2 -> "On"
           [] v.n = 3 -> "Sleep - Light"
           [] v.n = 4 -> "Sleep - Deep"
           [] v.n = 6 -> "Off - Hard"
           [] v.n = 8 -> "Off - Soft"
           [] v.n = 9 -> "Power Cycle (Off-Hard)"
           [] v.n = 13 -> "Off - Hard Graceful"
           [] OTHER -> "Unknown"

\* the match statement of get_power_state
PowerLabel(v) ==
    IF v.t # "int" THEN "Unknown"
    ELSE CASE v.n = 2 -> "On"
           [] v.n = 3 -> "Sleep - Light"
           [] v.n = 4 -> "Sleep - Deep"
           [] v.n = 6 -> "Off - Hard"
           [] v.n = 7 -> "Hibernate (Off - Soft)"
           [] v.n = 8 -> "Off - Soft"
           [] v.n = 9 -> "Power Cycle (Off-Hard)"
           [] v.n = 13 -> "Off - Hard Graceful"
           [] OTHER -> "Unknown"

get_power_state(data) ==
    IF ~Truthy(data) THEN Text(<<"Unable to get power state of device.">>)
    ELSE IF data.kind # "object" THEN Raise("TypeError")
    ELSE IF ~HasKey(data, "powerstate") THEN Raise("KeyError")
    ELSE Text(<<"Power State: " \o PowerLabel(data.fields["powerstate"])>>)

\* data["ReturnValue"] != 0
NotZero(v) == ~(v.t = "int" /\ v.n = 0)

do_power_action(data) ==
    IF ~Truthy(data) THEN Text(<<"Unable to perform power action on the device.">>)
    ELSE IF data.kind # "object" THEN Raise("AttributeError")
    ELSE IF ~HasKey(data, "ReturnValue") \/ data.fields["ReturnValue"].t = "null"
         THEN Text(<<"Unable to perform power action on the device.">>)
    ELSE IF NotZero(data.fields["ReturnValue"]) THEN Text(<<"Failed to perform power action.">>)
    ELSE Text(<<"Success to perform power action.">>)

(***************************************************************************)
(* The process: import (module body up to line 52), the authorization in   *)
(* flight, the rest of the module body, then mcp.run serving tool calls.   *)
(***************************************************************************)
\* a tool call as the host makes it; fields a tool does not take stay at their defaults
Call(tool, status, guid, action, useSOL) ==
    [tool |-> tool, status |-> status, guid |-> guid, action |-> action, useSOL |-> useSOL]

NoCall == Call("", 0, "", 0, "")

Calls ==
    {Call("get_devices", st, "", 0, "") : st \in {0, 1}}
      \cup {Call("get_power_state", 0, "guid-a", 0, "")}
      \cup {Call("do_power_action", 0, "guid-a", 10, "false")}

\* HTTP method of the one request a tool makes
Method(call) == IF call.tool = "do_power_action" THEN "POST" ELSE "GET"

\* a tool invocation suspended at its await: the request it has issued
Request(call, hdr, sent) == [call |-> call, hdr |-> hdr, sent |-> sent]

NoLast ==
    [valid |-> FALSE, call |-> NoCall, hdr |-> "", method |-> "",
     outcome |-> Outcome("", 0, FALSE, NoneBody), data |-> NoneBody,
     result |-> Text(<<>>), sent |-> 0]

\* the body a tool's dispatcher hands back
Dispatch(call, o) ==
    IF Method(call) = "POST" THEN make_dmt_post_request(o) ELSE make_dmt_get_request(o)

\* the tool body after its await
ToolResult(call, data) ==
    CASE call.tool = "get_devices" -> get_devices(data)
      [] call.tool = "get_power_state" -> get_power_state(data)
      [] OTHER -> do_power_action(data)

\* faulty variant: the server starts while the authorization is still a pending task
HostServingDuringAuthorize == phase \in {"authorizing", "loaded", "serving"}

\* the host dispatches tool calls only inside mcp.run
HostServing == phase = "serving"

Init ==
    /\ phase = "import"
    /\ token = Unset
    /\ tokenWrites = 0
    /\ authSent = 0
    /\ inflight = EmptyBag
    /\ last = NoLast

\* asyncio.run(authorize()): get_token posts the one authorization request
AuthorizeSend ==
    /\ phase = "import"
    /\ phase' = "authorizing"
    /\ authSent' = authSent + 1
    /\ UNCHANGED <<token, tokenWrites, inflight, last>>

\* the authorization request ends; authorize assigns the global
AuthorizeReturn ==
    /\ phase = "authorizing"
    /\ \E o \in AuthOutcomes :
          /\ token' = get_token(o)
          /\ tokenWrites' = tokenWrites + 1
    /\ phase' = "loaded"
    /\ UNCHANGED <<authSent, inflight, last>>

\* the module body reaches mcp.run(transport='stdio')
RunServer ==
    /\ phase = "loaded"
    /\ phase' = "serving"
    /\ UNCHANGED <<token, tokenWrites, authSent, inflight, last>>

\* the host invokes a tool: the dispatcher builds its headers from the global and
\* issues the request (reading an unassigned global raises NameError out of the tool)
ToolCall(call) ==
    /\ HostServing
    /\ BagCardinality(inflight) < MaxInFlight
    /\ IF token.t = "unset"
       THEN /\ last' = [NoLast EXCEPT !.valid = TRUE, !.call = call,
                                      !.method = Method(call), !.result = Raise("NameError")]
            /\ UNCHANGED inflight
       ELSE /\ inflight' = inflight (+) SetToBag({Request(call, AuthHeader(token), 1)})
            /\ UNCHANGED last
    /\ UNCHANGED <<phase, token, tokenWrites, authSent>>

\* the request r ends with outcome o: the dispatcher returns, the tool formats and returns
ToolReturn(r, o) ==
    /\ BagIn(r, inflight)
    /\ LET data == Dispatch(r.call, o)
       IN  last' = [valid |-> TRUE, call |-> r.call, hdr |-> r.hdr,
                    method |-> Method(r.call), outcome |-> o, data |-> data,
                    result |-> ToolResult(r.call, data),
                    sent |-> r.sent + Resends(o)]
    /\ inflight' = inflight (-) SetToBag({r})
    /\ token' = TokenAfterDispatch(token, o)
    /\ UNCHANGED <<phase, tokenWrites, authSent>>

Next ==
    \/ AuthorizeSend
    \/ AuthorizeReturn
    \/ RunServer
    \/ \E call \in Calls : ToolCall(call)
    \/ \E r \in BagToSet(inflight), o \in Outcomes : ToolReturn(r, o)

Spec == Init /\ [][Next]_vars

(***************************************************************************)
(* Properties.  `last` is the tool invocation that returned most recently; *)
(* every invocation passes through it, so an invariant over `last` speaks  *)
(* of every invocation.                                                    *)
(***************************************************************************)
\* the latest invocation got as far as its dispatcher's response
Returned(tool) == last.valid /\ last.call.tool = tool /\ last.outcome.net # ""

\* the fixed failure string of each tool
FailureText(tool) ==
    CASE tool = "get_devices" -> "Unable to fetch devices."
      [] tool = "get_power_state" -> "Unable to get power state of device."
      [] OTHER -> "Unable to perform power action on the device."

\* C1: every tool invocation, whatever the dispatcher hands back (absence or a
\* parsed body of any shape), ends by returning text and never raises to the host.
C1_ToolsAlwaysReturnText ==
    last.valid => last.result.kind = "text"

\* C2: a 2xx response to get_devices whose parsed body is the empty array makes
\* get_devices return "No device.", not "Unable to fetch devices.".
C2_EmptyArrayGivesNoDevice ==
    (Returned("get_devices") /\ ~Throws(last.outcome) /\ last.outcome.body = ArrBody(<<>>))
        => last.result = Text(<<"No device.">>)

\* C3: for an array of N >= 1 well-formed devices get_devices returns exactly N
\* blocks (connection status, hostname, GUID, friendly name) joined by N-1
\* separators "\n---\n", the i-th block built from the i-th device.
C3_DevicesFormattedInOrder ==
    LET items == last.outcome.body.items
        N == Len(items)
        t == last.result.text
    IN  (/\ Returned("get_devices") /\ ~Throws(last.outcome)
         /\ last.outcome.body.kind = "array" /\ N >= 1
         /\ \A i \in 1..N : WellFormed(items[i]))
        => /\ last.result.kind = "text"
           /\ Len(t) = 10 * N - 1
           /\ \A i \in 1..N :
                 LET b == 10 * (i - 1)
                 IN  /\ t[b + 1] = "\nConnection Status: "
                     /\ t[b + 2] = Str(items[i].fields["connectionStatus"])
                     /\ t[b + 3] = "\nHostname: "
                     /\ t[b + 4] = Str(items[i].fields["hostname"])
                     /\ t[b + 5] = "\nGUID: "
                     /\ t[b + 6] = Str(items[i].fields["guid"])
                     /\ t[b + 7] = "\nFriendly Name: "
                     /\ t[b + 8] = Str(items[i].fields["friendlyName"])
                     /\ t[b + 9] = "\n"
           /\ \A i \in 1..(N - 1) : t[10 * i] = "\n---\n"
           /\ Cardinality({j \in 1..Len(t) : t[j] = "\n---\n"}) = N - 1
           /\ items = <<Dev2, Dev1>> =>
                 t = <<"\nConnection Status: ", "0", "\nHostname: ", "host-b",
                       "\nGUID: ", "guid-b", "\nFriendly Name: ", "Beta", "\n",
                       "\n---\n",
                       "\nConnection Status: ", "1", "\nHostname: ", "host-a",
                       "\nGUID: ", "guid-a", "\nFriendly Name: ", "Alpha", "\n">>

\* C3 witness: two devices came back, Dev2 before Dev1, and were formatted.
C3_Witness ==
    /\ Returned("get_devices") /\ ~Throws(last.outcome)
    /\ last.outcome.body = ArrBody(<<Dev2, Dev1>>)
    /\ last.result.kind = "text"

\* C4: an object whose powerstate is the integer c yields "Power State: <label>",
\* the label fixed for c in {2,3,4,6,7,8,9,13} and "Unknown" for every other integer.
C4_PowerStateLabels ==
    LET v == last.outcome.body.fields["powerstate"]
        table == [c \in {2, 3, 4, 6, 7, 8, 9, 13} |->
                    CASE c = 2 -> "Power State: On"
                      [] c = 3 -> "Power State: Sleep - Light"
                      [] c = 4 -> "Power State: Sleep - Deep"
                      [] c = 6 -> "Power State: Off - Hard"
                      [] c = 7 -> "Power State: Hibernate (Off - Soft)"
                      [] c = 8 -> "Power State: Off - Soft"
                      [] c = 9 -> "Power State: Power Cycle (Off-Hard)"
                      [] OTHER -> "Power State: Off - Hard Graceful"]
    IN  (/\ Returned("get_power_state") /\ ~Throws(last.outcome)
         /\ last.outcome.body.kind = "object" /\ v.t = "int")
        => last.result =
             Text(<<IF v.n \in DOMAIN table THEN table[v.n] ELSE "Power State: Unknown">>)

\* C4 witness: code 13 was reported and labelled.
C4_Witness ==
    /\ Returned("get_power_state") /\ ~Throws(last.outcome)
    /\ last.outcome.body = ObjBody([EmptyFields EXCEPT !["powerstate"] = JInt(13)])
    /\ last.result = Text(<<"Power State: Off - Hard Graceful">>)

\* C5: do_power_action returns exactly one of three fixed strings: the success
\* string iff the response has ReturnValue 0, the failure string iff it has an
\* integer ReturnValue other than 0, the "unable" string iff the dispatcher
\* returned absence or the response lacks ReturnValue.  Stated over the responses
\* the three cases cover: a ReturnValue, when there is one, is an integer or null
\* (null counted as lacking the field).
C5_PowerActionThreeWay ==
    LET d == last.data
        rv == d.fields["ReturnValue"]
        has == d.kind = "object" /\ rv.t \notin {"missing", "null"}
        success == Text(<<"Success to perform power action.">>)
        failed == Text(<<"Failed to perform power action.">>)
        unable == Text(<<"Unable to perform power action on the device.">>)
    IN  (Returned("do_power_action") /\ (has => rv.t = "int"))
        => /\ last.result \in {success, failed, unable}
           /\ last.result = success <=> (has /\ rv.n = 0)
           /\ last.result = failed <=> (has /\ rv.n # 0)
           /\ last.result = unable <=> ~has

\* C6: while the held credential is absent (startup authorization failed), every
\* tool invocation returns its fixed failure string and never a data or success result.
C6_NoCredentialAlwaysFails ==
    (last.valid /\ token = JNone)
        => last.result = Text(<<FailureText(last.call.tool)>>)

\* C7: both dispatchers return None on a network error, a timeout, a non-2xx
\* status or an unparseable body, and the parsed body only on 2xx with a parseable
\* body; every failure cause looks the same to the calling tool.
C7_DispatcherAbsenceOnFailure ==
    LET o == last.outcome
        failed == \/ o.net \in {"error", "timeout"}
                  \/ o.status < 200 \/ o.status > 299
                  \/ ~o.parsed
    IN  (last.valid /\ o.net # "")
        => /\ failed => /\ last.data = NoneBody
                        /\ last.result = Text(<<FailureText(last.call.tool)>>)
           /\ ~failed => last.data = o.body

\* C7 witness: a POST answered 401 with a JSON error body came back as absence.
C7_Witness ==
    /\ Returned("do_power_action") /\ last.method = "POST"
    /\ last.outcome.status = 401 /\ last.outcome.body # NoneBody
    /\ last.data = NoneBody

\* C8: the global token is assigned exactly once, by the startup authorization;
\* no dispatcher call or tool invocation changes it afterwards, whatever its outcome.
C8_TokenAssignedOnce ==
    [][(token' # token \/ tokenWrites' # tokenWrites)
         => (phase = "authorizing" /\ phase' = "loaded" /\ tokenWrites = 0)]_vars

\* C8 witness: a request answered 401 has returned and the token acquired at
\* startup is still held.
C8_Witness ==
    /\ last.valid /\ last.outcome.status = 401
    /\ token = JStr("jwt-1") /\ tokenWrites = 1

\* C9: the authorization runs once and has completed before the first tool call:
\* no request is in flight and no tool has run unless the server is serving with
\* the global assigned.
C9_InitBeforeServing ==
    /\ authSent <= 1
    /\ phase \in {"loaded", "serving"}
         => (authSent = 1 /\ tokenWrites = 1 /\ token.t # "unset")
    /\ (inflight # EmptyBag \/ last.valid)
         => (phase = "serving" /\ authSent = 1 /\ tokenWrites = 1 /\ token.t # "unset")
    /\ last.result # Raise("NameError")
    /\ \A r \in BagToSet(inflight) : r.hdr = AuthHeader(token)

\* C9 witness: a tool request is in flight while serving.
C9_Witness ==
    phase = "serving" /\ inflight # EmptyBag

\* C10: no retries: one authorization request in all, and one outbound request per
\* tool invocation (GET for get_devices and get_power_state, POST for
\* do_power_action), whether it succeeds, times out or fails.
C10_NoRetries ==
    /\ authSent = (IF phase = "import" THEN 0 ELSE 1)
    /\ \A r \in BagToSet(inflight) : r.sent = 1
    /\ (last.valid /\ last.outcome.net # "")
         => /\ last.sent = 1
            /\ last.method = (IF last.call.tool = "do_power_action" THEN "POST" ELSE "GET")

\* C10 witness: a request timed out and the invocation returned after one request.
C10_Witness ==
    /\ last.valid /\ last.outcome.net = "timeout"
    /\ last.sent = 1 /\ authSent = 1

====
